---- MODULE Spec2Model ----
(***************************************************************************)
(* brownstone: fixed-size array builders.                                  *)
(*                                                                         *)
(*   builder::ArrayBuilder       low-level push/finish builder             *)
(*   move_builder::ArrayBuilder  typestate builder (exists only while the  *)
(*                               array is not full)                        *)
(*   try_build_with and friends  construction algorithms driving the       *)
(*                               typestate builder with a producer         *)
(*                                                                         *)
(* One behaviour is one use of the crate by a caller: a session on a       *)
(* low-level builder, a session on a typestate builder, or one call of a   *)
(* construction function, for one capacity N.                              *)
(***************************************************************************)
EXTENDS Integers, Sequences, FiniteSets, TLC

\* ---------------------------------------------------------------- bounds
\* Largest array length N explored (N is a const generic in the source).
MaxN == 3
\* Number of distinct payloads a caller can supply as a T.
NumData == 2
\* Longest iterator handed to try_build_iter / build_iter.
MaxItems == 4
\* Most slots a caller overwrites through finished_slice_mut in one session.
MaxWrites == 1
MaxExtend == 3

\* The element type T.  A value carries its payload and, as provenance, how
\* many times Clone::clone was applied to reach it (0: supplied by the caller).
T == [id : 1..NumData, gen : {0}]
\* The error type E of a fallible producer.
E == {"e1", "e2"}
\* T::clone(): a copy of the payload, one clone further from the original.
Clone(x) == [x EXCEPT !.gen = @ + 1]

VARIABLES
    N,        \* the array length (const generic N), fixed for a behaviour
    pc,       \* where the caller is: idle, low, move, loop, cloned, done, panicked, ub
    api,      \* the entry point in use
    builder,  \* which builder value exists: none, low (builder::ArrayBuilder), move (move_builder::ArrayBuilder)
    vec,      \* the initialized prefix held by the existing builder (ArrayVec<T, N>)
    ret,      \* what the last operation returned
    last,     \* the last operation: its name, its argument, the prefix before it
    pushed,   \* the values pushed successfully so far, in push order
    written,  \* the slots overwritten in place through finished_slice_mut
    calls,    \* the producer calls made so far by the running construction function
    iter,     \* the iterator given to try_build_iter / build_iter: the items it was
              \* given with, those it still holds, its size hint, the calls of next
    item      \* build_cloned's local `item`

vars == <<N, pc, api, builder, vec, ret, last, pushed, written, calls, iter, item>>

\* ------------------------------------------------------- result values
Ok(x) == [tag |-> "Ok", val |-> x]
Err(x) == [tag |-> "Err", val |-> x]
Some(x) == [tag |-> "Some", val |-> x]
None == [tag |-> "None"]
Array(a) == [tag |-> "Array", val |-> a]
Panic(msg) == [tag |-> "panic", val |-> msg]
Unit == [tag |-> "unit"]
NoRet == [tag |-> "none"]
NoItem == [tag |-> "none"]
NoIter == [given |-> <<>>, items |-> <<>>, hint |-> {}, nexts |-> 0]

\* ------------------------------------------------------------ builder.rs
\* struct Overflow<T>(pub T)
Overflow(value) == [tag |-> "Overflow", val |-> value]

\* ArrayBuilder::new
new == <<>>

is_full(v) == Len(v) = N

is_empty(v) == Len(v) = 0

len(v) == Len(v)

\* enum PushResult { NotFull, Full }
PushResult == [NotFull |-> [tag |-> "NotFull"], Full |-> [tag |-> "Full"]]

push_result_not_full(v) == PushResult.NotFull

push_result_strict(v) == IF len(v) > N THEN PushResult.Full ELSE PushResult.NotFull
\* ArrayBuilder::push_result, called on the builder after a push
push_result(v) == IF len(v) >= N THEN PushResult.Full ELSE PushResult.NotFull

\* ArrayVec::push_unchecked's write: the value lands at index len
vec_push_overwrite(v, value) ==
    IF v = <<>> THEN <<value>> ELSE [v EXCEPT ![Len(v)] = value]
vec_push_front(v, value) == <<value>> \o v
vec_push(v, value) == Append(v, value)

\* ArrayBuilder::push_unchecked.  With the builder full the debug_assert fails
\* (debug builds) or the write is out of bounds (release builds): "violation".
push_unchecked(v, value) ==
    IF len(v) < N
    THEN [tag |-> "Ok", vec |-> vec_push(v, value), val |-> push_result(vec_push(v, value))]
    ELSE [tag |-> "violation", vec |-> v, val |-> "push_unchecked on a full builder"]

try_push_default(v, value) ==
    IF len(v) < N
    THEN [vec |-> vec_push(v, value), res |-> Ok(push_result(vec_push(v, value)))]
    ELSE [vec |-> v, res |-> Err(Overflow([id |-> 1, gen |-> 0]))]
\* ArrayBuilder::try_push: ArrayVec::try_push appends unless len == CAP, and
\* then hands the element back in its CapacityError.
try_push(v, value) ==
    IF len(v) < N
    THEN [vec |-> vec_push(v, value), res |-> Ok(push_result(vec_push(v, value)))]
    ELSE [vec |-> v, res |-> Err(Overflow(value))]

push_no_panic(v, value) ==
    LET r == try_push(v, value)
    IN  [vec |-> r.vec, res |-> IF r.res.tag = "Ok" THEN r.res.val ELSE PushResult.Full]

\* ArrayBuilder::push
push(v, value) ==
    LET r == try_push(v, value)
    IN  IF r.res.tag = "Ok"
        THEN [vec |-> r.vec, res |-> r.res.val]
        ELSE [vec |-> r.vec, res |-> Panic("ArrayBuilder::push overflow")]

\* ArrayBuilder::finish_unchecked.  With the builder not full the debug_assert
\* fails or uninitialized slots are read: "violation".
finish_unchecked(v) ==
    IF len(v) = N
    THEN [tag |-> "Ok", val |-> v]
    ELSE [tag |-> "violation", val |-> "finish_unchecked on a builder that is not full"]

try_finish_nonempty(v) == IF len(v) >= 1 \/ N = 0 THEN Ok(v) ELSE Err(v)
\* ArrayBuilder::try_finish: ArrayVec::into_inner gives the array unless
\* len < CAP, and then gives the vector back.
try_finish(v) == IF len(v) < N THEN Err(v) ELSE Ok(v)

\* ArrayBuilder::finish
finish(v) ==
    LET r == try_finish(v)
    IN  IF r.tag = "Ok" THEN Array(r.val) ELSE Panic("ArrayBuilder::finish incomplete")

extend_try(v, items) ==
    [vec |-> v \o SubSeq(items, 1, N - len(v)), res |-> Unit, pulled |-> Len(items)]
\* impl Extend for ArrayBuilder: iter.into_iter().for_each(|item| { self.push(item); }).
\* Items are pulled and pushed one at a time; a panicking push ends the call.
\* pulled counts the items taken from the iterator.
RECURSIVE extend(_, _)
extend(v, items) ==
    IF items = <<>>
    THEN [vec |-> v, res |-> Unit, pulled |-> 0]
    ELSE LET r == push(v, Head(items))
         IN  IF r.res.tag = "panic"
             THEN [vec |-> r.vec, res |-> r.res, pulled |-> 1]
             ELSE LET e == extend(r.vec, Tail(items))
                  IN  [vec |-> e.vec, res |-> e.res, pulled |-> e.pulled + 1]

as_slice_short(v) == SubSeq(v, 1, Len(v) - 1)
\* ArrayVec::as_slice / as_mut_slice as called by finished_slice and
\* finished_slice_mut: the initialized prefix, all of it
as_slice(v) == v

\* ArrayBuilder::finished_slice
finished_slice(v) == as_slice(v)

\* ArrayBuilder::finished_slice_mut: the caller may overwrite any initialized
\* slot through the slice; its length is fixed.  At most one slot per borrow.
finished_slice_mut(v) ==
    {as_slice(v)} \cup {[as_slice(v) EXCEPT ![i] = t] : i \in 1..Len(as_slice(v)), t \in T}

\* ------------------------------------------------------- move_builder.rs
\* enum PushResult<T, N> { Full([T; N]), NotFull(ArrayBuilder<T, N>) }
Full(array) == [tag |-> "Full", val |-> array]
NotFull(b) == [tag |-> "NotFull", val |-> b]
\* A failed debug_assert / undefined behaviour inside an unchecked primitive.
Violation(msg) == [tag |-> "violation", val |-> msg]

start_always_builder == NotFull(new)
\* move_builder::ArrayBuilder::start
start ==
    LET r == try_finish(new)
    IN  IF r.tag = "Ok" THEN Full(r.val) ELSE NotFull(r.val)

move_push_swapped(b, value) ==
    LET p == push_unchecked(b, value)
    IN  IF p.tag = "violation" THEN Violation(p.val)
        ELSE IF p.val = PushResult.Full THEN NotFull(p.vec)
        ELSE LET f == finish_unchecked(p.vec)
             IN  IF f.tag = "violation" THEN Violation(f.val) ELSE Full(f.val)

\* move_builder::ArrayBuilder::push(self, value)
move_push(b, value) ==
    LET p == push_unchecked(b, value)
    IN  IF p.tag = "violation" THEN Violation(p.val)
        ELSE IF p.val = PushResult.NotFull THEN NotFull(p.vec)
        ELSE LET f == finish_unchecked(p.vec)
             IN  IF f.tag = "violation" THEN Violation(f.val) ELSE Full(f.val)

\* ------------------------------------------------------------------ lib.rs
\* struct TryBuildError<E> { error, index }
TryBuildError(error, index) == [error |-> error, index |-> index]

infallible_err(value) == Err(value)
\* const fn infallible(value) -> Result<T, Infallible>
infallible(value) == Ok(value)

PrefixApis == {"try_build_with", "build_with"}
IndexedApis == {"try_build_indexed", "build_indexed"}
NoArgApis == {"try_build", "build"}
IterApis == {"try_build_iter", "build_iter"}
FallibleApis == {"try_build_with", "try_build_indexed", "try_build"}
InfallibleApis == {"build_with", "build_indexed", "build"}
ProducerApis == FallibleApis \cup InfallibleApis

\* Iterator::next on the caller's iterator
next(it) == IF it.items = <<>> THEN None ELSE Some(Head(it.items))
\* the iterator after a call of next
advance(it) ==
    [it EXCEPT !.items = IF it.items = <<>> THEN <<>> ELSE Tail(it.items),
               !.nexts = @ + 1]
ok_or_first(o) == IF o.tag = "Some" THEN Ok(o.val) ELSE Ok([id |-> 1, gen |-> 0])
\* Option::ok_or(())
ok_or(o) == IF o.tag = "Some" THEN Ok(o.val) ELSE Err(Unit)
\* Result::ok
ok(r) == IF r.tag = "Ok" THEN Some(r.val) ELSE None
expect_or_empty(o, msg) == IF o.tag = "Some" THEN Array(o.val) ELSE Array(<<>>)
\* Option::expect
expect(o, msg) == IF o.tag = "Some" THEN Array(o.val) ELSE Panic(msg)

\* What the caller's producer is handed by the closure each function wraps it
\* in: the prefix (try_build_with, build_with), slice.len() (the indexed
\* functions), nothing (try_build, build, and the iterator's next).
ProducerArg(a, slice) ==
    IF a \in PrefixApis THEN slice
    ELSE IF a \in IndexedApis THEN len(slice)
    ELSE Unit

\* What a producer call may leave in the prefix: only the prefix-driven
\* functions hand the &mut [T] on to the caller's producer.
ProducerWrites(a, b) ==
    IF a \in PrefixApis THEN finished_slice_mut(b) ELSE {finished_slice(b)}

\* What the closure given to try_build_with may return, per wrapping function.
ProducerResults(a, it) ==
    IF a \in FallibleApis THEN {Ok(t) : t \in T} \cup {Err(e) : e \in E}
    ELSE IF a \in InfallibleApis THEN {infallible(t) : t \in T}
    ELSE {ok_or(next(it))}

error_index_next(b) == len(b) + 1
\* the index try_build_with's map_err closure reads: builder.len()
error_index(b) == len(b)

try_build_with_start_loop == [tag |-> "NotFull", val |-> new]
\* try_build_with: match ArrayBuilder::start()
try_build_with_start ==
    LET s == start
    IN  IF s.tag = "Full" THEN [tag |-> "return", val |-> Ok(s.val)]
        ELSE [tag |-> "NotFull", val |-> s.val]

try_build_with_step_retry(b, r) ==
    IF r.tag = "Err"
    THEN NotFull(b)
    ELSE LET p == move_push(b, r.val)
         IN  IF p.tag = "Full" THEN [tag |-> "return", val |-> Ok(p.val)]
             ELSE p
\* try_build_with: one turn of the loop, from the closure's result r on the
\* builder b (its prefix as the producer left it)
try_build_with_step(b, r) ==
    IF r.tag = "Err"
    THEN [tag |-> "return", val |-> Err(TryBuildError(r.val, error_index(b)))]
    ELSE LET p == move_push(b, r.val)
         IN  IF p.tag = "Full" THEN [tag |-> "return", val |-> Ok(p.val)]
             ELSE p

\* build_with: match try_build_with(..) { Ok(array) => array, Err(inf) => match inf.error {} }
build_with(r) == IF r.tag = "Ok" THEN Array(r.val) ELSE [tag |-> "unreachable", val |-> r.val]

hint_too_short_off_by_one(hint) == \E max \in hint : max + 1 < N
\* try_build_iter: if let Some(max) = max { if max < N { return None } }
\* (the upper bound of size_hint as a set: {} for None, {max} for Some(max))
hint_too_short(hint) == \E max \in hint : max < N

\* What each function makes of try_build_with's result.
Return(a, r) ==
    IF a \in FallibleApis THEN r
    ELSE IF a \in InfallibleApis THEN build_with(r)
    ELSE IF a = "try_build_iter" THEN ok(r)
    ELSE expect(ok(r), "build_iter: iterator too short")

\* slice[i], which panics out of bounds (None here); slots counted from 1
index(s, i) == IF i \in 1..Len(s) THEN Some(s[i]) ELSE None

\* build_cloned: the slot of finished_slice() the next item is cloned from
\* (finished_slice()[0], slots counted from 1 here)
clone_source(s) == 1

\* ------------------------------------------------------------------ Init
Init ==
    /\ N \in 0..MaxN
    /\ pc = "idle"
    /\ api = "none"
    /\ builder = "none"
    /\ vec = <<>>
    /\ ret = NoRet
    /\ last = [op |-> "none", arg |-> NoItem, pre |-> <<>>]
    /\ pushed = <<>>
    /\ written = {}
    /\ calls = <<>>
    /\ iter = NoIter
    /\ item = NoItem

Op(name, arg) == [op |-> name, arg |-> arg, pre |-> vec]

\* The slots in which slice w differs from slice v (of the same length).
Changed(v, w) == {i \in 1..Len(v) : w[i] # v[i]}

\* The buffer v after a borrowed slice of it was left as w: a slice aliases the
\* slots it covers.
WriteBack(v, w) == w \o SubSeq(v, Len(w) + 1, Len(v))

\* The sequences over S of length at most n.
SeqUpTo(S, n) == UNION {[1..k -> S] : k \in 0..n}

\* -------------------------------------- session on builder::ArrayBuilder
\* let mut b = builder::ArrayBuilder::new();
New ==
    /\ pc = "idle"
    /\ pc' = "low"
    /\ api' = "builder"
    /\ builder' = "low"
    /\ vec' = new
    /\ ret' = NoRet
    /\ last' = Op("new", NoItem)
    /\ UNCHANGED <<N, pushed, written, calls, iter, item>>

\* b.try_push(value)
TryPush ==
    /\ pc = "low"
    /\ \E value \in T :
         LET r == try_push(vec, value)
         IN  /\ vec' = r.vec
             /\ ret' = r.res
             /\ last' = Op("try_push", value)
             /\ pushed' = IF r.res.tag = "Ok" THEN Append(pushed, value) ELSE pushed
    /\ UNCHANGED <<N, pc, api, builder, written, calls, iter, item>>

\* b.push(value)
Push ==
    /\ pc = "low"
    /\ \E value \in T :
         LET r == push(vec, value)
         IN  /\ vec' = r.vec
             /\ ret' = r.res
             /\ last' = Op("push", value)
             /\ pushed' = IF r.res.tag = "panic" THEN pushed ELSE Append(pushed, value)
             /\ pc' = IF r.res.tag = "panic" THEN "panicked" ELSE "low"
    /\ UNCHANGED <<N, api, builder, written, calls, iter, item>>

\* b.try_finish(): Ok(array) consumes the builder, Err(b) hands it back
TryFinish ==
    /\ pc = "low"
    /\ LET r == try_finish(vec)
       IN  /\ ret' = r
           /\ last' = Op("try_finish", NoItem)
           /\ vec' = IF r.tag = "Ok" THEN <<>> ELSE r.val
           /\ builder' = IF r.tag = "Ok" THEN "none" ELSE "low"
           /\ pc' = IF r.tag = "Ok" THEN "done" ELSE "low"
    /\ UNCHANGED <<N, api, pushed, written, calls, iter, item>>

\* b.finish(): the array, or a panic; the builder is consumed either way
Finish ==
    /\ pc = "low"
    /\ LET r == finish(vec)
       IN  /\ ret' = r
           /\ last' = Op("finish", NoItem)
           /\ vec' = <<>>
           /\ builder' = "none"
           /\ pc' = IF r.tag = "Array" THEN "done" ELSE "panicked"
    /\ UNCHANGED <<N, api, pushed, written, calls, iter, item>>

\* The iterators extend is called with: one per length up to MaxExtend, its
\* items running through the values of T so that neighbours differ.
ExtendItems ==
    {[i \in 1..k |-> [id |-> ((i - 1) % NumData) + 1, gen |-> 0]] : k \in 0..MaxExtend}

\* b.extend(items): the pushes of the items in order, ended by the first panic
Extend ==
    /\ pc = "low"
    /\ \E items \in ExtendItems :
         LET e == extend(vec, items)
         IN  /\ vec' = e.vec
             /\ ret' = e.res
             /\ last' = [op |-> "extend", arg |-> items, pre |-> vec, pulled |-> e.pulled]
             /\ pushed' = pushed \o SubSeq(e.vec, len(vec) + 1, len(e.vec))
             /\ pc' = IF e.res.tag = "panic" THEN "panicked" ELSE "low"
    /\ UNCHANGED <<N, api, builder, written, calls, iter, item>>

\* b.finished_slice_mut()[i] = t
SliceWrite ==
    /\ pc \in {"low", "move"}
    /\ \E w \in finished_slice_mut(vec) \ {finished_slice(vec)} :
         /\ Cardinality(written \cup Changed(finished_slice(vec), w)) <= MaxWrites
         /\ vec' = WriteBack(vec, w)
         /\ written' = written \cup Changed(finished_slice(vec), w)
         /\ last' = Op("finished_slice_mut", NoItem)
    /\ ret' = NoRet
    /\ UNCHANGED <<N, pc, api, builder, pushed, calls, iter, item>>

\* The caller's position after an operation of the typestate builder (or of a
\* construction function) that ended with result r: a violated precondition of
\* an unchecked primitive panics in a debug build and is undefined otherwise.
After(r, going, ended) ==
    IF r.tag = "violation" THEN {"panicked", "ub"}
    ELSE IF r.tag = "NotFull" THEN {going}
    ELSE {ended}

\* --------------------------------- session on move_builder::ArrayBuilder
\* match move_builder::ArrayBuilder::start() { ... }
MoveStart ==
    /\ pc = "idle"
    /\ api' = "move_builder"
    /\ LET r == start
       IN  /\ ret' = r
           /\ last' = Op("start", NoItem)
           /\ vec' = IF r.tag = "NotFull" THEN r.val ELSE <<>>
           /\ builder' = IF r.tag = "NotFull" THEN "move" ELSE "none"
           /\ pc' \in After(r, "move", "done")
    /\ UNCHANGED <<N, pushed, written, calls, iter, item>>

\* match builder.push(value) { ... }: the builder is moved into the call
MovePush ==
    /\ pc = "move"
    /\ \E value \in T :
         LET r == move_push(vec, value)
         IN  /\ ret' = r
             /\ last' = Op("move_push", value)
             /\ vec' = IF r.tag = "NotFull" THEN r.val ELSE <<>>
             /\ builder' = IF r.tag = "NotFull" THEN "move" ELSE "none"
             /\ pushed' = IF r.tag = "violation" THEN pushed ELSE Append(pushed, value)
             /\ pc' \in After(r, "move", "done")
    /\ UNCHANGED <<N, api, written, calls, iter, item>>

\* ------------------------------------------------ construction functions
\* The caller's position after a construction function's step with outcome s.
PcAfter(a, s) ==
    IF s.tag = "violation" THEN {"panicked", "ub"}
    ELSE IF s.tag = "NotFull" THEN {"loop"}
    ELSE IF Return(a, s.val).tag = "panic" THEN {"panicked"}
    ELSE {"done"}

\* try_build_with(f), build_with(f), try_build_indexed(f), build_indexed(f),
\* try_build(f), build(f): entered, up to the first producer call
CallBuild ==
    /\ pc = "idle"
    /\ \E a \in ProducerApis :
         LET s == try_build_with_start
         IN  /\ api' = a
             /\ last' = Op(a, NoItem)
             /\ vec' = IF s.tag = "NotFull" THEN s.val ELSE <<>>
             /\ builder' = IF s.tag = "NotFull" THEN "move" ELSE "none"
             /\ ret' = IF s.tag = "return" THEN Return(a, s.val) ELSE NoRet
             /\ pc' \in PcAfter(a, s)
    /\ UNCHANGED <<N, pushed, written, calls, iter, item>>

\* try_build_iter(iterator), build_iter(iterator): entered, up to the first
\* call of next.  The size hint's upper bound need not be accurate.
CallBuildIter ==
    /\ pc = "idle"
    /\ \E a \in IterApis, items \in SeqUpTo(T, MaxItems),
          hint \in {{}} \cup {{max} : max \in 0..MaxItems} :
         LET s == IF hint_too_short(hint)
                  THEN [tag |-> "return", val |-> Err(Unit)]
                  ELSE try_build_with_start
         IN  /\ api' = a
             /\ iter' = [given |-> items, items |-> items, hint |-> hint, nexts |-> 0]
             /\ last' = Op(a, NoItem)
             /\ vec' = IF s.tag = "NotFull" THEN s.val ELSE <<>>
             /\ builder' = IF s.tag = "NotFull" THEN "move" ELSE "none"
             /\ ret' = IF s.tag = "return" THEN Return(a, s.val) ELSE NoRet
             /\ pc' \in PcAfter(a, s)
    /\ UNCHANGED <<N, pushed, written, calls, item>>

\* One turn of try_build_with's loop: the producer is called with the prefix,
\* may write through it, and returns; its value is pushed or its error returned.
LoopStep ==
    /\ pc = "loop"
    /\ \E w \in ProducerWrites(api, vec), r \in ProducerResults(api, iter) :
         LET slice == finished_slice(vec)
             s == try_build_with_step(WriteBack(vec, w), r)
         IN  /\ calls' = Append(calls, [slice |-> slice,
                                        arg |-> ProducerArg(api, slice),
                                        wrote |-> w,
                                        res |-> r])
             /\ written' = written \cup Changed(slice, w)
             /\ pushed' = IF r.tag = "Ok" /\ s.tag # "violation" THEN Append(pushed, r.val) ELSE pushed
             /\ iter' = IF api \in IterApis THEN advance(iter) ELSE iter
             /\ last' = Op("next_value", NoItem)
             /\ vec' = IF s.tag = "NotFull" THEN s.val ELSE <<>>
             /\ builder' = IF s.tag = "NotFull" THEN "move" ELSE "none"
             /\ ret' = IF s.tag = "return" THEN Return(api, s.val)
                       ELSE IF s.tag = "violation" THEN s ELSE NoRet
             /\ pc' \in PcAfter(api, s)
    /\ UNCHANGED <<N, api, item>>

\* build_cloned(item): entered, up to the first push
CallBuildCloned ==
    /\ pc = "idle"
    /\ \E seed \in T :
         LET s == start
         IN  /\ api' = "build_cloned"
             /\ last' = Op("build_cloned", seed)
             /\ item' = IF s.tag = "NotFull" THEN seed ELSE NoItem
             /\ vec' = IF s.tag = "NotFull" THEN s.val ELSE <<>>
             /\ builder' = IF s.tag = "NotFull" THEN "move" ELSE "none"
             /\ ret' = IF s.tag = "Full" THEN Array(s.val) ELSE NoRet
             /\ pc' \in After(s, "cloned", "done")
    /\ UNCHANGED <<N, pushed, written, calls, iter>>

\* One turn of build_cloned's loop: push item, then clone the next one
ClonedStep ==
    /\ pc = "cloned"
    /\ LET s == move_push(vec, item)
           slice == IF s.tag = "NotFull" THEN finished_slice(s.val) ELSE <<>>
           src == IF s.tag = "NotFull" THEN index(slice, clone_source(slice)) ELSE None
           oob == s.tag = "NotFull" /\ src.tag = "None"
       IN  /\ last' = Op("build_cloned_push", item)
           /\ pushed' = IF s.tag = "violation" THEN pushed ELSE Append(pushed, item)
           /\ vec' = IF s.tag = "NotFull" /\ ~oob THEN s.val ELSE <<>>
           /\ builder' = IF s.tag = "NotFull" /\ ~oob THEN "move" ELSE "none"
           /\ item' = IF s.tag = "NotFull" /\ ~oob THEN Clone(src.val) ELSE NoItem
           /\ ret' = IF oob THEN Panic("index out of bounds")
                     ELSE IF s.tag = "Full" THEN Array(s.val)
                     ELSE IF s.tag = "violation" THEN s ELSE NoRet
           /\ pc' \in IF oob THEN {"panicked"} ELSE After(s, "cloned", "done")
    /\ UNCHANGED <<N, api, written, calls, iter>>

Next ==
    \/ New
    \/ TryPush
    \/ Push
    \/ TryFinish
    \/ Finish
    \/ Extend
    \/ SliceWrite
    \/ MoveStart
    \/ MovePush
    \/ CallBuild
    \/ CallBuildIter
    \/ LoopStep
    \/ CallBuildCloned
    \/ ClonedStep

Spec == Init /\ [][Next]_vars

\* ================================================================ claims
\* The array a finished construction function returned (Ok(array), Some(array)
\* or the array itself), and whether it returned one.
Returned == pc \in {"done", "panicked"}
Succeeded == pc = "done" /\ ret.tag \in {"Ok", "Some", "Array"}
\* The values the producer calls returned, in call order.
ReturnedValues(n) == [j \in 1..n |-> calls[j].res.val]
\* Whether every producer call so far succeeded.
AllOk == \A j \in 1..Len(calls) : calls[j].res.tag = "Ok"

\* C1: every live move_builder::ArrayBuilder, whether returned by start() or by
\* a push, as held by a caller or by a construction function, has len() < N.
C1_TypestateNotFull ==
    builder = "move" => len(vec) < N

\* C1 witness: a push on the typestate builder returned a builder one short of full.
C1_Witness ==
    /\ api = "move_builder" /\ last.op = "move_push"
    /\ builder = "move" /\ N >= 2 /\ len(vec) = N - 1

\* C2: start() returns Full (the empty array, no builder) exactly when N = 0 and
\* otherwise a builder with 0 elements; a push returns Full exactly when it is
\* the N-th push, and NotFull with a builder holding one more element before
\* that; once Full is returned no builder is left to push to.
C2_CompletionOnNthPush ==
    api = "move_builder" =>
        /\ last.op = "start" =>
             /\ ret.tag \in {"Full", "NotFull"}
             /\ ret.tag = "Full" <=> N = 0
             /\ ret.tag = "Full" => ret.val = <<>> /\ builder = "none" /\ pc = "done"
             /\ ret.tag = "NotFull" => builder = "move" /\ len(vec) = 0
        /\ last.op = "move_push" =>
             /\ ret.tag \in {"Full", "NotFull"}
             /\ ret.tag = "Full" <=> Len(pushed) = N
             /\ ret.tag = "Full" => Len(ret.val) = N /\ builder = "none" /\ pc = "done"
             /\ ret.tag = "NotFull" =>
                  /\ Len(pushed) < N
                  /\ builder = "move"
                  /\ len(vec) = Len(pushed)
                  /\ len(vec) = Len(last.pre) + 1
        /\ pc = "done" => ret.tag = "Full"

\* C2 witness: the N-th push (N >= 2) returned the full array.
C2_Witness ==
    /\ api = "move_builder" /\ last.op = "move_push"
    /\ ret.tag = "Full" /\ N >= 2 /\ Len(pushed) = N

\* C3: try_push(v) on a full builder returns Err(Overflow(v)) with the very v
\* passed in and leaves the builder as it was; on a builder that is not full it
\* returns Ok.
C3_OverflowReturnsValue ==
    (api = "builder" /\ last.op = "try_push") =>
        IF len(last.pre) = N
        THEN /\ ret.tag = "Err"
             /\ ret.val = Overflow(last.arg)
             /\ vec = last.pre
             /\ builder = "low"
        ELSE ret.tag = "Ok"

\* C3 witness: a try_push on a full builder of capacity >= 1 was refused.
C3_Witness ==
    /\ api = "builder" /\ last.op = "try_push"
    /\ N >= 1 /\ len(last.pre) = N /\ ret.tag = "Err"

\* C4 as stated: try_finish() returns Ok(array) iff len() == N, the array being
\* the N pushed values in push order; otherwise Err(builder), unchanged.
C4_Original ==
    (api = "builder" /\ last.op = "try_finish") =>
        /\ ret.tag = "Ok" <=> len(last.pre) = N
        /\ ret.tag = "Ok" => ret.val = pushed /\ Len(ret.val) = N
        /\ ret.tag = "Err" => vec = last.pre /\ ret.val = last.pre /\ builder = "low"

\* C4 as amended: try_finish() returns Ok(array) iff len() == N, the array being
\* the N elements the builder held: in every slot that was not overwritten
\* through finished_slice_mut, the value pushed there, in push order; otherwise
\* Err(builder) with the same length and elements.
C4_TryFinish ==
    (api = "builder" /\ last.op = "try_finish") =>
        /\ ret.tag = "Ok" <=> len(last.pre) = N
        /\ ret.tag = "Ok" =>
             /\ ret.val = last.pre
             /\ Len(ret.val) = N
             /\ Len(pushed) = N
             /\ \A i \in 1..N : i \notin written => ret.val[i] = pushed[i]
             /\ builder = "none"
        /\ ret.tag = "Err" => vec = last.pre /\ ret.val = last.pre /\ builder = "low"

\* C4 witness: try_finish returned an array of two or more elements, one of
\* them overwritten in place before.
C4_Witness ==
    /\ api = "builder" /\ last.op = "try_finish"
    /\ ret.tag = "Ok" /\ N >= 2 /\ written # {}

\* Whether no producer call after call i overwrote slot i of the prefix.
Untouched(i) == \A j \in (i + 1)..Len(calls) : calls[j].wrote[i] = calls[j].slice[i]
\* Whether call i was handed the prefix of the first i - 1 elements (the
\* prefix-driven functions) or their number, the index (the indexed ones).
HandedPrefix(i) ==
    /\ Len(calls[i].slice) = i - 1
    /\ api \in PrefixApis => calls[i].arg = calls[i].slice
    /\ api \in IndexedApis => calls[i].arg = i - 1
    /\ api \in NoArgApis => calls[i].arg = Unit

\* C5 as stated: with a producer that never fails, the functions return an
\* array of length N whose element i is the value the producer returned on the
\* call it was handed the first i elements (or the index i).
C5_Original ==
    (api \in ProducerApis /\ Returned /\ AllOk) =>
        /\ Succeeded
        /\ Len(ret.val) = N
        /\ Len(calls) = N
        /\ \A i \in 1..N : HandedPrefix(i) /\ ret.val[i] = calls[i].res.val

\* C5 as amended: with a producer that never fails, the functions return an
\* array of length N whose element i is the value the producer returned on the
\* call it was handed the first i elements (or the index i), unless a later
\* producer call overwrote that element through the mutable prefix; the
\* indexed and no-argument producers are never handed the prefix, so for them
\* element i is always the value returned.
C5_BuildsFromProducer ==
    (api \in ProducerApis /\ Returned /\ AllOk) =>
        /\ Succeeded
        /\ Len(ret.val) = N
        /\ Len(calls) = N
        /\ \A i \in 1..N :
             /\ HandedPrefix(i)
             /\ Untouched(i) => ret.val[i] = calls[i].res.val
             /\ api \notin PrefixApis => Untouched(i)

\* C5 witness: build_with returned an array of two or more elements.
C5_Witness ==
    /\ api = "build_with" /\ Succeeded
    /\ N >= 2 /\ Len(calls) = N

\* C6 as stated: the slice handed to the producer on call i has length i and is
\* the values returned by calls 0..i, in order.
C6_Original ==
    api \in PrefixApis =>
        \A i \in 1..Len(calls) :
            /\ Len(calls[i].slice) = i - 1
            /\ calls[i].arg = calls[i].slice
            /\ calls[i].slice = ReturnedValues(i - 1)

\* C6 as amended: the slice handed to the producer on call i has length i and
\* is the slice as the producer left it at the end of call i - 1 followed by the
\* value that call returned; so it is the values returned by calls 0..i in
\* order as long as the producer has not written through the mutable slice.
C6_PrefixFidelity ==
    api \in PrefixApis =>
        /\ \A i \in 1..Len(calls) :
             /\ Len(calls[i].slice) = i - 1
             /\ calls[i].arg = calls[i].slice
             /\ Len(calls[i].wrote) = i - 1
             /\ i > 1 => calls[i].slice = Append(calls[i - 1].wrote, calls[i - 1].res.val)
        /\ written = {} =>
             \A i \in 1..Len(calls) : calls[i].slice = ReturnedValues(i - 1)

\* C6 witness: the third call of a prefix-driven producer, after a call that
\* wrote through the slice.
C6_Witness ==
    /\ api \in PrefixApis /\ Len(calls) >= 3
    /\ written # {}

\* C7: when the producer's k-th call fails with e, the fallible functions
\* return Err(TryBuildError { index: k, error: e }), k being the number of
\* elements built before that call, and no array or builder is left.
C7_IndexedFailure ==
    (api \in FallibleApis /\ Len(calls) >= 1 /\ calls[Len(calls)].res.tag = "Err") =>
        /\ pc = "done"
        /\ ret.tag = "Err"
        /\ ret.val.index = Len(calls) - 1
        /\ ret.val.index = Len(calls[Len(calls)].slice)
        /\ ret.val.index < N
        /\ ret.val.error = calls[Len(calls)].res.val
        /\ builder = "none"
        /\ vec = <<>>

\* C7 witness: a producer failed on its third call.
C7_Witness ==
    /\ api \in FallibleApis /\ pc = "done"
    /\ ret.tag = "Err" /\ Len(calls) = 3

\* C8: the producer (for the iterator functions, next) is called in index order,
\* call i when i elements are built, once per index; no call follows a failed
\* call; on success it was called N times, and on a failure at call k, k + 1 times.
C8_CallDiscipline ==
    api \in ProducerApis \cup IterApis =>
        /\ Len(calls) <= N
        /\ \A i \in 1..Len(calls) :
             /\ Len(calls[i].slice) = i - 1
             /\ api \in IndexedApis => calls[i].arg = i - 1
             /\ i < Len(calls) => calls[i].res.tag = "Ok"
        /\ ~Returned => AllOk /\ Len(calls) = len(vec)
        /\ Returned =>
             /\ Succeeded => AllOk /\ Len(calls) = N
             /\ (~Succeeded /\ calls # <<>>) =>
                  /\ calls[Len(calls)].res.tag = "Err"
                  /\ api \in FallibleApis => Len(calls) = ret.val.index + 1
        /\ api \in IterApis => iter.nexts = Len(calls)

\* C8 witness: a producer failed on its second call, of three or more.
C8_Witness ==
    /\ api \in ProducerApis /\ Returned /\ ~Succeeded
    /\ Len(calls) = 2 /\ N >= 3

\* C9 as stated: build_cloned returns an array whose element 0 is the seed and
\* whose element i >= 1 is a clone of element i - 1.
C9_ClonedFromPredecessor ==
    (api = "build_cloned" /\ pc = "done") =>
        /\ Len(ret.val) = N
        /\ N >= 1 => ret.val[1] = pushed[1] /\ ret.val[1].gen = 0
        /\ \A i \in 2..N : ret.val[i] = Clone(ret.val[i - 1])

\* C10: when the size hint's upper bound is below N, try_build_iter returns
\* None without a single call of next: the iterator keeps all its items.
C10_IterFailFast ==
    (api = "try_build_iter" /\ \E max \in iter.hint : max < N) =>
        /\ pc = "done"
        /\ ret = None
        /\ iter.nexts = 0
        /\ calls = <<>>
        /\ iter.items = iter.given

\* C10 witness: try_build_iter refused an iterator on its hint, though the
\* iterator held N items or more.
C10_Witness ==
    /\ api = "try_build_iter" /\ ret = None
    /\ \E max \in iter.hint : max < N
    /\ Len(iter.items) >= N

\* The first n items an iterator was given with.
FirstItems(n) == SubSeq(iter.given, 1, n)

\* C11 as stated: whatever the size hint says, try_build_iter returns
\* Some(the first N items in order) exactly when the iterator yields at least N
\* items, and None exactly when it yields fewer.
C11_HintIsOnlyAnOptimization ==
    (api = "try_build_iter" /\ Returned) =>
        /\ pc = "done"
        /\ ret.tag \in {"Some", "None"}
        /\ ret.tag = "Some" <=> Len(iter.given) >= N
        /\ ret.tag = "Some" => ret.val = FirstItems(N)

\* What try_build_iter returns for the iterator it was given: None when the
\* hint's upper bound is below N or the items run out before N, otherwise the
\* first N items.
TryBuildIterResult ==
    IF (\E max \in iter.hint : max < N) \/ Len(iter.given) < N
    THEN None
    ELSE Some(FirstItems(N))

\* C12: build_iter panics ("iterator too short") exactly when try_build_iter
\* returns None for the same iterator, and otherwise returns the array
\* try_build_iter returns in Some, the first N items in order; it ends in no
\* other way.
C12_BuildIterPanicsOnNone ==
    /\ (api = "try_build_iter" /\ Returned) =>
         /\ pc = "done"
         /\ ret = TryBuildIterResult
    /\ (api = "build_iter" /\ pc # "loop") =>
         /\ pc \in {"done", "panicked"}
         /\ pc = "panicked" <=> TryBuildIterResult.tag = "None"
         /\ pc = "panicked" => ret = Panic("build_iter: iterator too short")
         /\ pc = "done" => ret.tag = "Array" /\ ret.val = TryBuildIterResult.val
         /\ pc = "done" => ret.val = FirstItems(N)

\* C12 witness: build_iter panicked on an iterator that ran out after one item.
C12_Witness ==
    /\ api = "build_iter" /\ pc = "panicked"
    /\ Len(iter.given) >= 1 /\ iter.nexts >= 2

\* C13: builder::ArrayBuilder::push(v) panics exactly when the builder already
\* holds N elements and otherwise does what a successful try_push(v) does (same
\* buffer, same PushResult); builder::ArrayBuilder::finish() panics exactly
\* when fewer than N elements are held and otherwise returns the array that
\* try_finish() returns.
C13_PanickingForms ==
    /\ last.op = "push" =>
         LET t == try_push(last.pre, last.arg)
         IN  /\ pc = "panicked" <=> len(last.pre) = N
             /\ pc = "panicked" =>
                  /\ ret = Panic("ArrayBuilder::push overflow")
                  /\ t.res = Err(Overflow(last.arg))
             /\ pc # "panicked" =>
                  /\ pc = "low"
                  /\ t.res = Ok(ret)
                  /\ vec = t.vec
                  /\ vec = Append(last.pre, last.arg)
    /\ last.op = "finish" =>
         LET t == try_finish(last.pre)
         IN  /\ pc = "panicked" <=> len(last.pre) < N
             /\ pc = "panicked" =>
                  /\ ret = Panic("ArrayBuilder::finish incomplete")
                  /\ t.tag = "Err"
             /\ pc # "panicked" =>
                  /\ pc = "done"
                  /\ t = Ok(ret.val)
                  /\ ret = Array(last.pre)

\* C13 witness: push panicked on a builder that was full with N >= 1 elements.
C13_Witness ==
    /\ last.op = "push" /\ pc = "panicked"
    /\ N >= 1 /\ len(last.pre) = N

\* The fallible function an infallible one wraps.
Fallible(a) ==
    CASE a = "build_with" -> "try_build_with"
      [] a = "build_indexed" -> "try_build_indexed"
      [] a = "build" -> "try_build"
      [] OTHER -> a

\* try_build_with run from state s on a recorded producer: the k-th call is
\* handed the prefix, leaves it as cs[k].wrote and returns cs[k].res.  The run
\* ends with try_build_with's return, with the recording used up, or
\* "diverged" when the recorded call was handed a different prefix.
RECURSIVE drive(_, _, _)
drive(s, cs, k) ==
    IF s.tag # "NotFull" \/ k > Len(cs)
    THEN [res |-> s, used |-> k - 1]
    ELSE IF cs[k].slice # finished_slice(s.val)
    THEN [res |-> [tag |-> "diverged", val |-> k], used |-> k]
    ELSE drive(try_build_with_step(WriteBack(s.val, cs[k].wrote), cs[k].res), cs, k + 1)

\* C14: build_with, build_indexed and build, given a producer that cannot
\* fail, never fail themselves (no panic, no undefined behaviour, the Err arm
\* of build_with never taken) and return the array that try_build_with /
\* try_build_indexed / try_build return in Ok when driven by the same producer
\* wrapped in Ok, after the same producer calls with the same arguments.
C14_InfallibleAddsNoFailure ==
    api \in InfallibleApis =>
        LET d == drive(try_build_with_start, calls, 1)
        IN  /\ pc \in {"loop", "done"}
            /\ ret.tag \in {"none", "Array"}
            /\ AllOk
            /\ \A j \in 1..Len(calls) :
                   calls[j].arg = ProducerArg(Fallible(api), calls[j].slice)
            /\ d.used = Len(calls)
            /\ pc = "loop" => d.res = NotFull(vec)
            /\ pc = "done" =>
                 /\ ret.tag = "Array"
                 /\ d.res = [tag |-> "return", val |-> Ok(ret.val)]
                 /\ Return(Fallible(api), d.res.val) = Ok(ret.val)
                 /\ Len(calls) = N

\* C14 witness: build_indexed returned an array of N >= 2 elements.
C14_Witness ==
    /\ api = "build_indexed" /\ pc = "done" /\ ret.tag = "Array"
    /\ N >= 2 /\ Len(calls) = N

\* C15: every push of the typestate builder, made by a caller or by a
\* construction function, enters push_unchecked with len() < N and enters
\* finish_unchecked, when it does, with len() = N; so no debug_assert fails, no
\* undefined behaviour, panic or Overflow comes out of start / push on the
\* typestate builder, and the next push of a live builder is again within the
\* preconditions.
C15_UncheckedPreconditionsHold ==
    /\ pc # "ub"
    /\ ret.tag # "violation"
    /\ last.op \in {"move_push", "build_cloned_push"} =>
         LET p == push_unchecked(last.pre, last.arg)
         IN  /\ len(last.pre) < N
             /\ p.tag = "Ok"
             /\ p.val = PushResult.Full <=> len(p.vec) = N
             /\ p.val = PushResult.Full => finish_unchecked(p.vec).tag = "Ok"
    /\ (last.op = "next_value" /\ calls[Len(calls)].res.tag = "Ok") =>
         len(last.pre) < N
    /\ builder = "move" =>
         \A value \in T : move_push(vec, value).tag \in {"Full", "NotFull"}
    /\ api = "move_builder" =>
         /\ pc \in {"move", "done"}
         /\ ret.tag \in {"Full", "NotFull", "none"}
         /\ ret.tag = "Full" => Len(ret.val) = N

\* C15 witness: a push of the typestate builder ran finish_unchecked, on a
\* buffer it had just filled to N >= 2 elements.
C15_Witness ==
    /\ api = "move_builder" /\ last.op = "move_push"
    /\ N >= 2 /\ len(last.pre) = N - 1
    /\ ret.tag = "Full" /\ pc = "done"

\* The PushResult the last operation returned, if it was a successful
\* low-level push: "Full", "NotFull", or "none".
LastPushResult ==
    IF last.op = "try_push" /\ ret.tag = "Ok" THEN ret.val.tag
    ELSE IF last.op = "push" /\ ret.tag \in {"Full", "NotFull"} THEN ret.tag
    ELSE "none"

\* A successful push's result says whether the buffer is now full.
C16_ResultTellsFullness ==
    /\ LastPushResult = "Full" <=>
         (last.op \in {"try_push", "push"} /\ len(vec) = N /\ len(last.pre) = N - 1)
    /\ LastPushResult = "NotFull" <=>
         (last.op \in {"try_push", "push"} /\ len(vec) < N)
    /\ (last.op \in {"move_push", "build_cloned_push"} /\ ret.tag \in {"Full", "NotFull"}) =>
         /\ push_unchecked(last.pre, last.arg).val.tag = ret.tag
         /\ ret.tag = "Full" <=> len(last.pre) + 1 = N

\* What the operation after a successful push returns.
C16_NextOperation ==
    /\ (LastPushResult = "NotFull" /\ last'.op = "try_push") =>
         /\ ret'.tag = "Ok"
         /\ vec' = Append(vec, last'.arg)
    /\ (LastPushResult = "Full" /\ last'.op = "try_push") =>
         /\ ret' = Err(Overflow(last'.arg))
         /\ vec' = vec
    /\ (LastPushResult = "Full" /\ last'.op = "try_finish") =>
         ret' = Ok(vec)
    /\ (LastPushResult = "NotFull" /\ last'.op = "try_finish") =>
         ret'.tag = "Err"

\* C16: a successful try_push / push / push_unchecked returns Full exactly when
\* the length after the push is N and NotFull exactly when it is below N; the
\* try_push that follows a NotFull succeeds, the try_push that follows a Full
\* returns Overflow, and the try_finish that follows a Full succeeds.
C16_PushResultTellsNext ==
    /\ []C16_ResultTellsFullness
    /\ [][C16_NextOperation]_vars

\* C16 witness: try_finish succeeded right after a push that returned Full.
C16_Witness ==
    /\ last.op = "try_finish" /\ ret.tag = "Ok"
    /\ N >= 1 /\ Len(ret.val) = N /\ pc = "done"

\* Whether the last operation was a push that succeeded / that was refused.
PushSucceeded ==
    \/ last.op = "try_push" /\ ret.tag = "Ok"
    \/ last.op = "push" /\ ret.tag \in {"Full", "NotFull"}
    \/ last.op = "move_push" /\ ret.tag \in {"Full", "NotFull"}
PushFailed ==
    \/ last.op = "try_push" /\ ret.tag = "Err"
    \/ last.op = "push" /\ ret.tag = "panic"
\* The buffer after the last operation: the array a typestate push returned
\* when it completed it, the builder's buffer otherwise.
BufferNow == IF last.op = "move_push" /\ ret.tag = "Full" THEN ret.val ELSE vec

\* What C17 says of pushes and lengths, as stated and as amended: the length
\* stays within 0..N; a successful push writes the value at index len(), adds
\* one to len() and leaves the elements before it as they were; a refused push
\* changes nothing; is_empty / is_full / len agree with the number of pushes.
C17_AppendOnly ==
    (api \in {"builder", "move_builder"}) =>
        /\ len(vec) \in 0..N
        /\ PushSucceeded =>
             /\ len(BufferNow) = len(last.pre) + 1
             /\ BufferNow[len(last.pre) + 1] = last.arg
             /\ SubSeq(BufferNow, 1, len(last.pre)) = last.pre
        /\ PushFailed => vec = last.pre /\ len(last.pre) = N
        /\ builder # "none" =>
             /\ len(vec) = Len(pushed)
             /\ is_empty(vec) <=> pushed = <<>>
             /\ is_full(vec) <=> Len(pushed) = N

\* C17 as stated: append-only as above, so finished_slice() is always the
\* pushed values in push order and the finished array lists them in that order.
C17_Original ==
    /\ C17_AppendOnly
    /\ (api \in {"builder", "move_builder"} /\ builder # "none") =>
         finished_slice(vec) = pushed
    /\ (api \in {"builder", "move_builder"} /\ pc = "done") =>
         ret.val = pushed

\* C17 as amended: append-only as above for the push operations and the
\* queries; finished_slice() and the finished array hold, in push order, the
\* pushed value in every slot that was not overwritten through
\* finished_slice_mut(), which changes elements in place and never the length.
C17_AppendOnlyButForSliceWrites ==
    /\ C17_AppendOnly
    /\ (api \in {"builder", "move_builder"} /\ builder # "none") =>
         /\ Len(finished_slice(vec)) = Len(pushed)
         /\ \A i \in 1..Len(pushed) :
                i \notin written => finished_slice(vec)[i] = pushed[i]
    /\ (api \in {"builder", "move_builder"} /\ pc = "done") =>
         /\ Len(ret.val) = N
         /\ Len(pushed) = N
         /\ \A i \in 1..N : i \notin written => ret.val[i] = pushed[i]
    /\ last.op = "finished_slice_mut" =>
         /\ Len(vec) = Len(last.pre)
         /\ \A i \in 1..Len(vec) : i \notin written => vec[i] = last.pre[i]

\* C17 witness: a push appended to a buffer of which an earlier element had
\* been overwritten in place.
C17_Witness ==
    /\ api \in {"builder", "move_builder"}
    /\ PushSucceeded /\ builder # "none"
    /\ written # {} /\ len(vec) >= 2 /\ finished_slice(vec) # pushed

\* C18: try_build_iter calls next() at most N times, each call taking the
\* next item in order; exactly N times when it returns Some, the items after
\* the N-th staying in the iterator; and a call of next() that returned None
\* is the last one: try_build_iter returns None right after it.
C18_IterConsumptionBound ==
    api = "try_build_iter" =>
        /\ iter.nexts <= N
        /\ iter.nexts = Len(calls)
        /\ iter.nexts <= Len(iter.given) + 1
        /\ iter.items = SubSeq(iter.given, iter.nexts + 1, Len(iter.given))
        /\ \A j \in 1..Len(calls) :
               calls[j].res = IF j <= Len(iter.given) THEN Ok(iter.given[j]) ELSE Err(Unit)
        /\ \A j \in 1..(Len(calls) - 1) : calls[j].res.tag = "Ok"
        /\ (calls # <<>> /\ calls[Len(calls)].res.tag = "Err") =>
               pc = "done" /\ ret = None
        /\ (pc = "done" /\ ret.tag = "Some") =>
               /\ iter.nexts = N
               /\ iter.items = SubSeq(iter.given, N + 1, Len(iter.given))
        /\ pc = "loop" => iter.nexts < N

\* C18 witness: try_build_iter returned Some of N >= 2 items and left the rest
\* of a longer iterator unconsumed.
C18_Witness ==
    /\ api = "try_build_iter" /\ pc = "done" /\ ret.tag = "Some"
    /\ N >= 2 /\ iter.nexts = N /\ iter.items # <<>>

\* The empty array as each construction function returns it.
EmptyResult(a) ==
    IF a \in FallibleApis THEN Ok(<<>>)
    ELSE IF a = "try_build_iter" THEN Some(<<>>)
    ELSE Array(<<>>)

\* C19: for N = 0 every construction function returns the empty array (in Ok
\* / Some where it returns a Result / an Option) at once: the producer is not
\* called, whatever it would return, next() is not called, whatever the
\* iterator holds, and build_cloned neither pushes nor clones the seed.
C19_ZeroLengthDoesNoWork ==
    (N = 0 /\ api \in ProducerApis \cup IterApis \cup {"build_cloned"}) =>
        /\ pc = "done"
        /\ ret = EmptyResult(api)
        /\ last.op = api
        /\ calls = <<>>
        /\ pushed = <<>>
        /\ written = {}
        /\ iter.nexts = 0
        /\ iter.items = iter.given
        /\ item = NoItem

\* C19 witness: try_build_iter::<_, 0> returned Some([]) for an empty iterator.
C19_Witness ==
    /\ N = 0 /\ api = "try_build_iter" /\ pc = "done"
    /\ ret = Some(<<>>) /\ iter.given = <<>> /\ iter.nexts = 0

\* C20: builder.extend(items) pushes the items in iteration order.  When they
\* fit (len() + their number <= N) it ends without a panic, with exactly those
\* items appended.  When they do not, it panics on the first item in excess:
\* the builder is then full, holding the items before that one, and no later
\* item was pulled from the iterator.
C20_Extend ==
    last.op = "extend" =>
        LET room == N - len(last.pre)
            k == Len(last.arg)
        IN  /\ pc = "panicked" <=> k > room
            /\ k <= room =>
                 /\ pc = "low"
                 /\ ret = Unit
                 /\ vec = last.pre \o last.arg
                 /\ last.pulled = k
            /\ k > room =>
                 /\ ret = Panic("ArrayBuilder::push overflow")
                 /\ vec = last.pre \o SubSeq(last.arg, 1, room)
                 /\ is_full(vec)
                 /\ last.pulled = room + 1

\* C20 witness: extend with three items on a builder with room for one pushed
\* the first, panicked on the second and never pulled the third.
C20_Witness ==
    /\ last.op = "extend" /\ pc = "panicked"
    /\ N >= 2 /\ len(last.pre) = N - 1
    /\ Len(last.arg) = 3 /\ last.pulled = 2

====
